---- MODULE Spec2Model ----
(***************************************************************************)
(* Model of CSV_XML.run (src/calibre/library/catalogs/csv_xml.py): the      *)
(* CSV and XML catalog writers.                                            *)
(*                                                                         *)
(* Python values are tagged records [t |-> type, v |-> payload].  A str is  *)
(* a sequence of one-character strings; the markup tokens "<p>" and "</p>"  *)
(* stand for the characters of an opening and a closing tag, and a field    *)
(* name written to the CSV header is one token.                            *)
(***************************************************************************)
EXTENDS Integers, Sequences, FiniteSets, TLC

VARIABLES fmt, fields, data, current_library, catalog_title,
          pc, i, opened, outfile, root, err

vars == <<fmt, fields, data, current_library, catalog_title,
          pc, i, opened, outfile, root, err>>

(***************************************************************************)
(* Bounds of the model.                                                    *)
(***************************************************************************)
MaxRecs == 2
MaxFields == 2

(***************************************************************************)
(* Python values.                                                          *)
(***************************************************************************)
None == [t |-> "None", v |-> 0]
Missing == [t |-> "missing", v |-> 0]
PStr(s) == [t |-> "str", v |-> s]
PInt(n) == [t |-> "int", v |-> n]
PFloat(n) == [t |-> "float", v |-> n]
PList(l) == [t |-> "list", v |-> l]
PDate(y, m, d) == [t |-> "datetime", v |-> <<y, m, d>>]

IsNone(x) == x.t = "None"
IsStr(x) == x.t = "str"
IsList(x) == x.t = "list"

Truthy(x) ==
    CASE x.t = "None" -> FALSE
      [] x.t = "str" -> x.v # <<>>
      [] x.t = "list" -> x.v # <<>>
      [] x.t = "int" -> x.v # 0
      [] x.t = "float" -> x.v # 0
      [] OTHER -> TRUE

RECURSIVE Join(_, _)
Join(parts, sep) ==
    IF parts = <<>> THEN <<>>
    ELSE IF Len(parts) = 1 THEN parts[1]
    ELSE parts[1] \o sep \o Join(Tail(parts), sep)

RECURSIVE Digits(_)
Digits(n) ==
    LET d == <<"0", "1", "2", "3", "4", "5", "6", "7", "8", "9">>
    IN  IF n < 10 THEN <<d[n + 1]>> ELSE Digits(n \div 10) \o <<d[(n % 10) + 1]>>

TwoDigits(n) == IF n < 10 THEN <<"0">> \o Digits(n) ELSE Digits(n)

RECURSIVE ReprList(_)
ReprList(l) ==
    IF l = <<>> THEN <<>>
    ELSE LET q == <<"'">> \o l[1] \o <<"'">>
         IN  IF Len(l) = 1 THEN q ELSE q \o <<",", " ">> \o ReprList(Tail(l))

\* str(x)
PyStr(x) ==
    CASE x.t = "str" -> x.v
      [] x.t = "None" -> <<"N", "o", "n", "e">>
      [] x.t = "int" -> Digits(x.v)
      [] x.t = "float" -> Digits(x.v) \o <<".", "0">>
      [] x.t = "list" -> <<"[">> \o ReprList(x.v) \o <<"]">>
      [] x.t = "datetime" ->
            Digits(x.v[1]) \o <<"-">> \o TwoDigits(x.v[2]) \o <<"-">> \o TwoDigits(x.v[3])
            \o <<" ", "0", "0", ":", "0", "0", ":", "0", "0">>

\* f'{item/2:.2g}' for the integer ratings 0..10: the g presentation drops
\* a trailing ".0"
FormatHalfWithPointZero(n) ==
    Digits(n \div 2) \o (IF n % 2 = 0 THEN <<".", "0">> ELSE <<".", "5">>)

FormatHalf(n) ==
    Digits(n \div 2) \o (IF n % 2 = 0 THEN <<>> ELSE <<".", "5">>)

\* calibre.utils.date.isoformat(date_time, as_utc=False)
isoformat(x) ==
    Digits(x.v[1]) \o <<"-">> \o TwoDigits(x.v[2]) \o <<"-">> \o TwoDigits(x.v[3])
    \o <<"T", "0", "0", ":", "0", "0", ":", "0", "0", "+", "0", "0", ":", "0", "0">>

\* calibre.ebooks.metadata.authors_to_string
authors_to_string(l) == Join(l, <<" ", "&", " ">>)

\* item.replace(old, new) for a one-character old
RECURSIVE ReplaceChar(_, _, _)
ReplaceChar(s, old, new) ==
    IF s = <<>> THEN <<>>
    ELSE (IF s[1] = old THEN new ELSE <<s[1]>>) \o ReplaceChar(Tail(s), old, new)

\* item.replace('\r\n', ' ')
RECURSIVE ReplaceCRLF(_)
ReplaceCRLF(s) ==
    IF s = <<>> THEN <<>>
    ELSE IF Len(s) >= 2 /\ s[1] = "\r" /\ s[2] = "\n"
         THEN <<" ">> \o ReplaceCRLF(Tail(Tail(s)))
         ELSE <<s[1]>> \o ReplaceCRLF(Tail(s))

IsbnChars == {"0", "1", "2", "3", "4", "5", "6", "7", "8", "9", "X", "-"}

\* re.sub(r'[^\dX-]', '', item)
StripIsbn(s) == SelectSeq(s, LAMBDA c: c \in IsbnChars)

Lower(c) == CASE c = "E" -> "e" [] c = "P" -> "p" [] c = "X" -> "x" [] OTHER -> c

RECURSIVE LowerStr(_)
LowerStr(s) == IF s = <<>> THEN <<>> ELSE <<Lower(s[1])>> \o LowerStr(Tail(s))

\* format.rpartition('.')[2]
RECURSIVE AfterLastDot(_)
AfterLastDot(s) ==
    IF \E k \in 1..Len(s): s[k] = "." THEN AfterLastDot(Tail(s)) ELSE s

RECURSIVE FormatExtensions(_)
FormatExtensions(l) ==
    IF l = <<>> THEN <<>>
    ELSE <<LowerStr(AfterLastDot(l[1]))>> \o FormatExtensions(Tail(l))

\* re.search(r'<(\w+)( |>)', item) and re.search(rf'</{tag}>$', item)
HasOpeningTag(s) == \E k \in 1..Len(s): s[k] = "<p>"
HasClosingTag(s) == s # <<>> /\ s[Len(s)] = "</p>"

\* calibre.utils.html2text.html2text
html2text(s) == SelectSeq(s, LAMBDA c: c \notin {"<p>", "</p>"})


(***************************************************************************)
(* Field names and field metadata (db.field_metadata).                     *)
(***************************************************************************)
CustomFields == {"#a", "#t", "#r"}

FixedScalarFields ==
    <<"id", "uuid", "publisher", "rating", "size", "isbn", "ondevice", "identifiers">>

BuiltinFields ==
    {"id", "uuid", "publisher", "rating", "size", "isbn", "ondevice", "identifiers",
     "title", "authors", "timestamp", "pubdate", "tags", "comments", "series",
     "languages", "cover", "formats", "library_name",
     "title_sort", "author_sort", "series_index"}

AllFields == CustomFields \cup BuiltinFields

\* field.startswith('#')
IsCustom(field) == field \in CustomFields

\* fm.get(field, {}).get('datatype')
Datatype(field) ==
    CASE field \in {"rating", "#r"} -> "rating"
      [] field \in {"timestamp", "pubdate"} -> "datetime"
      [] field \in {"id", "size"} -> "int"
      [] field = "series_index" -> "float"
      [] OTHER -> "text"

\* fm.get(field, {}).get('display', {}).get('is_names', False)
IsNames(field) == field = "#a"

\* the keys of a record (entry of data); a custom field's value is what
\* db.get_field(entry['id'], field, index_is_id=True) returns
RecordKeys == (AllFields \ {"library_name", "title_sort"}) \cup {"sort"}

InFields(field, fs) == \E k \in 1..Len(fs): fs[k] = field

(***************************************************************************)
(* CSV cell formatting.                                                    *)
(***************************************************************************)
\* the key the CSV branch reads from the entry for a field
CsvKey(field) == IF field = "title_sort" THEN "sort" ELSE field

\* entry[field] raises KeyError
CsvRaises(entry, field) ==
    /\ ~IsCustom(field)
    /\ field # "library_name"
    /\ entry[CsvKey(field)].t = "missing"

\* the item a field resolves to
CsvItem(entry, field, lib) ==
    IF IsCustom(field)
    THEN LET item == entry[field]
         IN  IF IsList(item)
             THEN IF IsNames(field)
                  THEN PStr(Join(item.v, <<" ", "&", " ">>))
                  ELSE PStr(Join(item.v, <<",", " ">>))
             ELSE item
    ELSE IF field = "library_name" THEN lib
    ELSE IF field = "title_sort" THEN entry["sort"]
    ELSE entry[field]

\* the elif chain on a non-None item
CsvNormalize(field, item) ==
    IF field = "formats" THEN PStr(Join(FormatExtensions(item.v), <<",", " ">>))
    ELSE IF field = "authors" THEN PStr(authors_to_string(item.v))
    ELSE IF field = "tags" THEN PStr(Join(item.v, <<",", " ">>))
    ELSE IF field = "isbn" THEN PStr(StripIsbn(item.v))
    ELSE IF Datatype(field) = "datetime" THEN PStr(isoformat(item))
    ELSE IF field = "comments"
         THEN PStr(ReplaceChar(ReplaceCRLF(item.v), "\n", <<" ">>))
    ELSE IF Datatype(field) = "rating" /\ Truthy(item) THEN PStr(FormatHalf(item.v))
    ELSE item

\* Convert HTML to markdown text
CsvHtml(item) ==
    IF IsStr(item) /\ HasOpeningTag(item.v) /\ HasClosingTag(item.v)
    THEN PStr(html2text(item.v))
    ELSE item

\* '"{}"'.format(str(item).replace('"', '""'))
QuoteNoDoubling(s) == <<"\"">> \o s \o <<"\"">>

Quote(s) == <<"\"">> \o ReplaceChar(s, "\"", <<"\"", "\"">>) \o <<"\"">>

\* the string that is quoted into the cell of a field ('' for None)
CsvItemString(entry, field, lib) ==
    LET item == CsvItem(entry, field, lib)
    IN  IF IsNone(item) THEN <<>>
        ELSE PyStr(CsvHtml(CsvNormalize(field, item)))

NoneCellNone == <<"\"", "N", "o", "n", "e", "\"">>

NoneCell == <<"\"", "\"">>

CsvCell(entry, field, lib) ==
    LET item == CsvItem(entry, field, lib)
    IN  IF IsNone(item) THEN NoneCell
        ELSE Quote(PyStr(CsvHtml(CsvNormalize(field, item))))

\* a row builder that leaves out an item that is None
CsvCellsSkipNone(entry, fs, lib) ==
    LET kept == SelectSeq(fs, LAMBDA f: ~IsNone(CsvItem(entry, f, lib)))
    IN  [k \in 1..Len(kept) |-> CsvCell(entry, kept[k], lib)]

CsvCells(entry, fs, lib) == [k \in 1..Len(fs) |-> CsvCell(entry, fs[k], lib)]

\* ','.join(outstr) + '\n'
CsvLine(entry, fs, lib) == Join(CsvCells(entry, fs, lib), <<",">>) \o <<"\n">>

\* '{}\n'.format(','.join(fields))
CsvHeaderReversed(fs) ==
    Join([k \in 1..Len(fs) |-> <<fs[Len(fs) + 1 - k]>>], <<",">>) \o <<"\n">>

CsvHeader(fs) == Join([k \in 1..Len(fs) |-> <<fs[k]>>], <<",">>) \o <<"\n">>

BOM == <<"U+FEFF">>


(***************************************************************************)
(* XML record construction.  An element is [tag, text, attrs, kids]; the    *)
(* construction of a record is a sequence of steps, each of which appends   *)
(* elements to the record or raises.                                       *)
(***************************************************************************)
Elem(tag, text, attrs, kids) == [tag |-> tag, text |-> text, attrs |-> attrs, kids |-> kids]

Leaf(tag, text) == Elem(tag, text, <<>>, <<>>)

Ok(els) == [exc |-> "", els |-> els]

Raise(type) == [exc |-> type, els |-> <<>>]

OsSep == "\\"

\* field.replace('#', '_')
CustomTag(field) ==
    CASE field = "#a" -> "_a" [] field = "#t" -> "_t" [] field = "#r" -> "_r"

\* for field in fields: if field.startswith('#'): ...
XmlCustomStep(r, field) ==
    LET val == r[field]
    IN  Ok(<<Leaf(CustomTag(field), IF IsStr(val) THEN val.v ELSE PyStr(val))>>)

XmlCustomSteps(r, fs) ==
    LET cs == SelectSeq(fs, IsCustom)
    IN  [k \in 1..Len(cs) |-> XmlCustomStep(r, cs[k])]

\* for field in ('id', 'uuid', ...): if field in fields: ...
XmlScalarStep(r, field, fs) ==
    IF ~InFields(field, fs) THEN Ok(<<>>)
    ELSE LET val == r[field]
         IN  IF val.t = "missing" THEN Raise("KeyError")
             ELSE IF ~Truthy(val) THEN Ok(<<>>)
             ELSE IF IsStr(val) THEN Ok(<<Leaf(field, val.v)>>)
             ELSE IF Datatype(field) = "rating"
                  THEN Ok(<<Leaf(field, FormatHalf(val.v))>>)
                  ELSE Ok(<<Leaf(field, PyStr(val))>>)

XmlScalarStepsInFieldOrder(r, fs) ==
    LET ss == SelectSeq(fs, LAMBDA f: \E k \in 1..Len(FixedScalarFields):
                                          FixedScalarFields[k] = f)
    IN  [k \in 1..Len(ss) |-> XmlScalarStep(r, ss[k], fs)]

XmlScalarSteps(r, fs) ==
    [k \in 1..Len(FixedScalarFields) |-> XmlScalarStep(r, FixedScalarFields[k], fs)]

\* E.title(r['title'], sort=r['sort'])
XmlTitleStep(r, fs) ==
    IF ~InFields("title", fs) THEN Ok(<<>>)
    ELSE IF r["title"].t = "missing" \/ r["sort"].t = "missing" THEN Raise("KeyError")
    ELSE IF ~IsStr(r["title"]) \/ ~IsStr(r["sort"]) THEN Raise("TypeError")
    ELSE Ok(<<Elem("title", r["title"].v, <<<<"sort", r["sort"].v>>>>, <<>>)>>)

\* E.authors(sort=r['author_sort']) and one E.author per author
XmlAuthorsStep(r, fs) ==
    IF ~InFields("authors", fs) THEN Ok(<<>>)
    ELSE IF r["author_sort"].t = "missing" THEN Raise("KeyError")
    ELSE IF ~IsStr(r["author_sort"]) THEN Raise("TypeError")
    ELSE IF r["authors"].t = "missing" THEN Raise("KeyError")
    ELSE IF ~IsList(r["authors"]) THEN Raise("TypeError")
    ELSE Ok(<<Elem("authors", <<>>, <<<<"sort", r["author_sort"].v>>>>,
                   [k \in 1..Len(r["authors"].v) |-> Leaf("author", r["authors"].v[k])])>>)

\* for field in ('timestamp', 'pubdate'): if field in fields: ...
XmlDateStep(r, field, fs) ==
    IF ~InFields(field, fs) THEN Ok(<<>>)
    ELSE IF r[field].t = "missing" THEN Raise("KeyError")
    ELSE IF r[field].t # "datetime" THEN Raise("AttributeError")
    ELSE Ok(<<Leaf(field, isoformat(r[field]))>>)

\* if 'tags' in fields and r['tags']: / if 'formats' in fields and r['formats']:
XmlListStep(r, field, kid, fs) ==
    IF ~InFields(field, fs) THEN Ok(<<>>)
    ELSE IF r[field].t = "missing" THEN Raise("KeyError")
    ELSE IF ~Truthy(r[field]) THEN Ok(<<>>)
    ELSE Ok(<<Elem(field, <<>>, <<>>,
                   [k \in 1..Len(r[field].v) |->
                       Leaf(kid, IF field = "formats"
                                 THEN ReplaceChar(r[field].v[k], OsSep, <<"/">>)
                                 ELSE r[field].v[k])])>>)

\* if 'comments' in fields and r['comments']: and likewise languages, cover
XmlTextStep(r, field, fs) ==
    IF ~InFields(field, fs) THEN Ok(<<>>)
    ELSE IF r[field].t = "missing" THEN Raise("KeyError")
    ELSE IF ~Truthy(r[field]) THEN Ok(<<>>)
    ELSE Ok(<<Leaf(field, IF field = "cover"
                          THEN ReplaceChar(r[field].v, OsSep, <<"/">>)
                          ELSE r[field].v)>>)

\* if 'series' in fields and r['series']: E.series(..., index=str(r['series_index']))
XmlSeriesStep(r, fs) ==
    IF ~InFields("series", fs) THEN Ok(<<>>)
    ELSE IF r["series"].t = "missing" THEN Raise("KeyError")
    ELSE IF ~Truthy(r["series"]) THEN Ok(<<>>)
    ELSE IF r["series_index"].t = "missing" THEN Raise("KeyError")
    ELSE Ok(<<Elem("series", r["series"].v,
                   <<<<"index", PyStr(r["series_index"])>>>>, <<>>)>>)

\* if 'library_name' in fields: record.append(E.library_name(current_library))
XmlLibraryStep(lib, fs) ==
    IF ~InFields("library_name", fs) THEN Ok(<<>>)
    ELSE IF ~IsStr(lib) THEN Raise("TypeError")
    ELSE Ok(<<Leaf("library_name", lib.v)>>)

\* the body of the try block, in the order of the code
XmlSteps(r, fs, lib) ==
    XmlCustomSteps(r, fs)
    \o XmlScalarSteps(r, fs)
    \o <<XmlTitleStep(r, fs), XmlAuthorsStep(r, fs),
         XmlDateStep(r, "timestamp", fs), XmlDateStep(r, "pubdate", fs),
         XmlListStep(r, "tags", "tag", fs),
         XmlTextStep(r, "comments", fs),
         XmlSeriesStep(r, fs),
         XmlTextStep(r, "languages", fs),
         XmlTextStep(r, "cover", fs),
         XmlListStep(r, "formats", "format", fs),
         XmlLibraryStep(lib, fs)>>

\* the elements appended by the steps before the first one that raises
RECURSIVE RunSteps(_)
RunSteps(steps) ==
    IF steps = <<>> THEN Ok(<<>>)
    ELSE IF steps[1].exc # "" THEN steps[1]
    ELSE LET rest == RunSteps(Tail(steps))
         IN  [exc |-> rest.exc, els |-> steps[1].els \o rest.els]

\* record = E.record() with the children the try block appended
XmlBuild(r, fs, lib) == RunSteps(XmlSteps(r, fs, lib))

XmlRecordOf(r, fs, lib) == Elem("record", <<>>, <<>>, XmlBuild(r, fs, lib).els)


(***************************************************************************)
(* Inputs: the result set of search_sort_db, the field list of             *)
(* get_output_fields, the library name and the catalog title.              *)
(***************************************************************************)
Profiles == {"full", "none", "falsy", "tricky", "missing"}

IntKeys == {"id", "size", "rating", "#r"}
ListKeys == {"authors", "tags", "formats", "#a", "#t"}
\* keys the XML branch reads whatever the field list is (r['title'] in the
\* except clause) or as an attribute of another field's element
ImplicitKeys == {"title", "sort", "author_sort", "series_index"}

FullValue(k) ==
    CASE k = "id" -> PInt(1)
      [] k = "size" -> PInt(12)
      [] k \in {"rating", "#r"} -> PInt(10)
      [] k = "series_index" -> PFloat(1)
      [] k \in {"timestamp", "pubdate"} -> PDate(2012, 1, 2)
      [] k \in {"authors", "#a"} -> PList(<<<<"J">>, <<"K">>>>)
      [] k \in {"tags", "#t"} -> PList(<<<<"x">>, <<"y">>>>)
      [] k = "formats" -> PList(<<<<"l", "\\", "b", ".", "E", "P">>, <<"b", ".", "m">>>>)
      [] k = "cover" -> PStr(<<"l", "\\", "c", ".", "j">>)
      [] k = "isbn" -> PStr(<<"9", "-", "1", "X">>)
      [] k = "title" -> PStr(<<"T">>)
      [] k = "sort" -> PStr(<<"t">>)
      [] OTHER -> PStr(<<"s">>)

FalsyValue(k) ==
    CASE k \in IntKeys -> PInt(0)
      [] k = "series_index" -> PFloat(0)
      [] k \in {"timestamp", "pubdate"} -> PDate(101, 1, 1)
      [] k \in ListKeys -> PList(<<>>)
      [] OTHER -> PStr(<<>>)

TrickyValue(k) ==
    CASE k = "id" -> PInt(2)
      [] k = "size" -> PInt(7)
      [] k = "rating" -> PInt(9)
      [] k = "#r" -> PInt(7)
      [] k = "series_index" -> PFloat(2)
      [] k \in {"timestamp", "pubdate"} -> PDate(1999, 12, 31)
      [] k = "#a" -> PStr(<<"a", "\"">>)
      [] k \in ListKeys -> PList(<<<<"a", ",", "b">>, <<"\"">>, <<"c">>>>)
      [] k = "comments" -> PStr(<<"<p>", "x", "\r", "\n", "\"", "y", "\n", ",", "</p>">>)
      [] k = "isbn" -> PStr(<<"I", ":", "9", "-", "x", "X">>)
      [] k = "title" -> PStr(<<"\"", "T", ",", "\"", "\"">>)
      [] OTHER -> PStr(<<"a", "\"", ",", "b">>)

MissingValue(k) ==
    IF k \in ImplicitKeys THEN FullValue(k)
    ELSE IF k \in CustomFields THEN None
    ELSE Missing

Variant(k, p) ==
    CASE p = "full" -> FullValue(k)
      [] p = "none" -> None
      [] p = "falsy" -> FalsyValue(k)
      [] p = "tricky" -> TrickyValue(k)
      [] p = "missing" -> MissingValue(k)

RecordOf(p) == [k \in RecordKeys |-> Variant(k, p)]

\* the field lists of at most n fields of S, without duplicates
FieldLists(S, n) ==
    {fs \in UNION {[1..m -> S] : m \in 0..n} :
        \A a, b \in 1..Len(fs): fs[a] = fs[b] => a = b}

\* a result set names the value profile of each of its records, in order;
\* Entry gives the record
ResultSets(n) == UNION {[1..m -> Profiles] : m \in 0..n}

Entry(p) == RecordOf(p)

ValueFields == {"#a", "rating", "title", "comments"}

LibraryNames == {PStr(<<"L">>), PStr(<<>>)}

CatalogTitles == {None, PStr(<<"C">>)}

NoError == [type |-> "", title |-> <<>>, cause |-> ""]

\* current_library is read only for the field library_name
InitCommon ==
    /\ fmt \in {"csv", "xml"}
    /\ current_library \in
           IF InFields("library_name", fields) THEN LibraryNames ELSE {PStr(<<"L">>)}
    /\ pc = "start"
    /\ i = 0
    /\ opened = FALSE
    /\ outfile = <<>>
    /\ root = Elem("", <<>>, <<>>, <<>>)
    /\ err = NoError

\* several records, a few fields, every kind of value
InitValues ==
    /\ fields \in FieldLists(ValueFields, MaxFields)
    /\ data \in ResultSets(MaxRecs)
    /\ InitCommon
    /\ catalog_title = None

\* at most one record, every field alone and every ordered pair of fields;
\* opts.catalog_title is read by the XML branch only
InitAllFields ==
    /\ fields \in FieldLists(AllFields, 2)
    /\ data \in ResultSets(1)
    /\ InitCommon
    /\ catalog_title \in IF fmt = "xml" THEN CatalogTitles ELSE {None}

Init == InitValues \/ InitAllFields

(***************************************************************************)
(* The CSV branch.                                                         *)
(***************************************************************************)
\* an export that gives up on an empty result set (raise SystemExit(1))
CsvOpenExitOnEmpty ==
    /\ pc = "start"
    /\ fmt = "csv"
    /\ IF Len(data) = 0
       THEN /\ pc' = "raised"
            /\ err' = [type |-> "SystemExit", title |-> <<>>, cause |-> ""]
            /\ UNCHANGED <<opened, outfile, i>>
       ELSE /\ opened' = TRUE
            /\ outfile' = <<BOM, CsvHeader(fields)>>
            /\ pc' = "rows"
            /\ i' = 1
            /\ err' = err
    /\ UNCHANGED <<fmt, fields, data, current_library, catalog_title, root>>

CsvOpen ==
    /\ pc = "start"
    /\ fmt = "csv"
    /\ opened' = TRUE
    /\ outfile' = <<BOM, CsvHeader(fields)>>
    /\ pc' = "rows"
    /\ i' = 1
    /\ UNCHANGED <<fmt, fields, data, current_library, catalog_title, root, err>>

CsvEntryRaises(entry) == \E k \in 1..Len(fields): CsvRaises(entry, fields[k])

CsvRow ==
    /\ pc = "rows"
    /\ i <= Len(data)
    /\ ~CsvEntryRaises(Entry(data[i]))
    /\ outfile' = Append(outfile, CsvLine(Entry(data[i]), fields, current_library))
    /\ i' = i + 1
    /\ UNCHANGED <<fmt, fields, data, current_library, catalog_title, pc, opened, root, err>>

\* a writer that writes each cell as soon as it is formatted
CsvRowRaisePartial ==
    /\ pc = "rows"
    /\ i <= Len(data)
    /\ CsvEntryRaises(Entry(data[i]))
    /\ LET bad == CHOOSE k \in 1..Len(fields):
                      /\ CsvRaises(Entry(data[i]), fields[k])
                      /\ \A j \in 1..(k - 1): ~CsvRaises(Entry(data[i]), fields[j])
       IN  outfile' = Append(outfile,
                Join(CsvCells(Entry(data[i]), SubSeq(fields, 1, bad - 1), current_library),
                     <<",">>))
    /\ pc' = "raised"
    /\ err' = [type |-> "KeyError", title |-> <<>>, cause |-> ""]
    /\ UNCHANGED <<fmt, fields, data, current_library, catalog_title, i, opened, root>>

CsvRowRaise ==
    /\ pc = "rows"
    /\ i <= Len(data)
    /\ CsvEntryRaises(Entry(data[i]))
    /\ pc' = "raised"
    /\ err' = [type |-> "KeyError", title |-> <<>>, cause |-> ""]
    /\ UNCHANGED <<fmt, fields, data, current_library, catalog_title, i, opened, outfile, root>>

CsvClose ==
    /\ pc = "rows"
    /\ i > Len(data)
    /\ pc' = "done"
    /\ UNCHANGED <<fmt, fields, data, current_library, catalog_title, i, opened, outfile, root, err>>

(***************************************************************************)
(* The XML branch.                                                         *)
(***************************************************************************)
\* a writer that opens the destination before it builds the tree
XmlRootOpensFirst ==
    /\ pc = "start"
    /\ fmt = "xml"
    /\ root' = Elem("calibredb", <<>>,
                    IF Truthy(catalog_title) THEN <<<<"title", catalog_title.v>>>> ELSE <<>>,
                    <<>>)
    /\ pc' = "records"
    /\ i' = 1
    /\ opened' = TRUE
    /\ UNCHANGED <<fmt, fields, data, current_library, catalog_title, outfile, err>>

XmlRoot ==
    /\ pc = "start"
    /\ fmt = "xml"
    /\ root' = Elem("calibredb", <<>>,
                    IF Truthy(catalog_title) THEN <<<<"title", catalog_title.v>>>> ELSE <<>>,
                    <<>>)
    /\ pc' = "records"
    /\ i' = 1
    /\ UNCHANGED <<fmt, fields, data, current_library, catalog_title, opened, outfile, err>>

XmlRecord ==
    /\ pc = "records"
    /\ i <= Len(data)
    /\ XmlBuild(Entry(data[i]), fields, current_library).exc = ""
    /\ root' = [root EXCEPT !.kids = Append(@, XmlRecordOf(Entry(data[i]), fields, current_library))]
    /\ i' = i + 1
    /\ UNCHANGED <<fmt, fields, data, current_library, catalog_title, pc, opened, outfile, err>>

\* raise Exception('Failed to convert {} to XML with error: {}'.format(r['title'], e)) from e
WrapError(r, exc) == [type |-> "Exception", title |-> PyStr(r["title"]), cause |-> exc]

\* a loop that drops the record that failed and goes on
XmlRecordSkip ==
    /\ pc = "records"
    /\ i <= Len(data)
    /\ XmlBuild(Entry(data[i]), fields, current_library).exc # ""
    /\ i' = i + 1
    /\ UNCHANGED <<fmt, fields, data, current_library, catalog_title, pc, opened, outfile,
                   root, err>>

XmlRecordRaise ==
    /\ pc = "records"
    /\ i <= Len(data)
    /\ XmlBuild(Entry(data[i]), fields, current_library).exc # ""
    /\ root' = [root EXCEPT !.kids = Append(@, XmlRecordOf(Entry(data[i]), fields, current_library))]
    /\ err' = WrapError(Entry(data[i]), XmlBuild(Entry(data[i]), fields, current_library).exc)
    /\ pc' = "raised"
    /\ UNCHANGED <<fmt, fields, data, current_library, catalog_title, i, opened, outfile>>

\* etree.tostring(root, encoding='utf-8', xml_declaration=True, pretty_print=True)
tostring(r) == [declaration |-> "<?xml version='1.0' encoding='utf-8'?>", root |-> r]

XmlWrite ==
    /\ pc = "records"
    /\ i > Len(data)
    /\ opened' = TRUE
    /\ outfile' = <<tostring(root)>>
    /\ pc' = "done"
    /\ UNCHANGED <<fmt, fields, data, current_library, catalog_title, i, root, err>>

Next ==
    \/ CsvOpen
    \/ CsvRow
    \/ CsvRowRaise
    \/ CsvClose
    \/ XmlRoot
    \/ XmlRecord
    \/ XmlRecordRaise
    \/ XmlWrite

Spec == Init /\ [][Next]_vars


(***************************************************************************)
(* Reading the output back.                                                *)
(***************************************************************************)
\* a written line without its line terminator
LineBody(line) == SubSeq(line, 1, Len(line) - 1)

EndsWithNewline(line) == line # <<>> /\ line[Len(line)] = "\n"

\* split on the commas that are outside quoted cells
RECURSIVE SplitCells(_, _, _)
SplitCells(s, cur, inq) ==
    IF s = <<>> THEN <<cur>>
    ELSE IF s[1] = "\"" THEN SplitCells(Tail(s), Append(cur, s[1]), ~inq)
    ELSE IF s[1] = "," /\ ~inq THEN <<cur>> \o SplitCells(Tail(s), <<>>, FALSE)
    ELSE SplitCells(Tail(s), Append(cur, s[1]), inq)

\* the cells of a line; a line with nothing on it has no cell
RowCells(line) ==
    IF LineBody(line) = <<>> THEN <<>> ELSE SplitCells(LineBody(line), <<>>, FALSE)

\* every double quote inside a cell is doubled
RECURSIVE QuotesDoubled(_)
QuotesDoubled(s) ==
    IF s = <<>> THEN TRUE
    ELSE IF s[1] # "\"" THEN QuotesDoubled(Tail(s))
    ELSE Len(s) >= 2 /\ s[2] = "\"" /\ QuotesDoubled(Tail(Tail(s)))

IsQuotedCell(c) ==
    /\ Len(c) >= 2
    /\ c[1] = "\""
    /\ c[Len(c)] = "\""
    /\ QuotesDoubled(SubSeq(c, 2, Len(c) - 1))

RECURSIVE Undouble(_)
Undouble(s) ==
    IF s = <<>> THEN <<>>
    ELSE IF Len(s) >= 2 /\ s[1] = "\"" /\ s[2] = "\""
         THEN <<"\"">> \o Undouble(Tail(Tail(s)))
         ELSE <<s[1]>> \o Undouble(Tail(s))

Unquote(c) == Undouble(SubSeq(c, 2, Len(c) - 1))

\* the header columns
HeaderColumns(line) == SelectSeq(LineBody(line), LAMBDA c: c # ",")

\* the record read for the k-th entry of the result set
Rec(k) == Entry(data[k])

\* the line written for the k-th entry: the BOM and the header come first
RowOf(k) == outfile[k + 2]

KidTags(record) == [k \in 1..Len(record.kids) |-> record.kids[k].tag]

HasKid(record, tag) == \E k \in 1..Len(record.kids): record.kids[k].tag = tag

KidText(record, tag) ==
    LET k == CHOOSE j \in 1..Len(record.kids): record.kids[j].tag = tag
    IN  record.kids[k].text

\* the field an element of a record stands for
FieldOfTag(tag) ==
    CASE tag = "_a" -> "#a" [] tag = "_t" -> "#t" [] tag = "_r" -> "#r" [] OTHER -> tag

XmlTagOf(field) == IF IsCustom(field) THEN CustomTag(field) ELSE field

IndexOf(fs, field) == CHOOSE k \in 1..Len(fs): fs[k] = field

\* the record elements whose construction has finished without an error
BuiltRecords == IF fmt = "xml" /\ pc \in {"records", "done"} THEN 1..Len(root.kids) ELSE {}

CsvDone == fmt = "csv" /\ pc = "done"


(***************************************************************************)
(* C1.  A CSV export that completes has written the header and then one     *)
(* line per record of the result set, in result-set order; the line of a    *)
(* record has exactly one quoted cell per field of the field list, and the  *)
(* k-th cell is the cell of the k-th field for that record.                *)
(***************************************************************************)
C1_RowsAndCells ==
    CsvDone =>
        /\ Len(outfile) = Len(data) + 2
        /\ outfile[1] = BOM
        /\ \A k \in 1..Len(data):
              LET cells == RowCells(RowOf(k))
              IN  /\ EndsWithNewline(RowOf(k))
                  /\ Len(cells) = Len(fields)
                  /\ \A j \in 1..Len(fields):
                        /\ IsQuotedCell(cells[j])
                        /\ cells[j] = CsvCell(Rec(k), fields[j], current_library)
                        /\ (fields[j] = "title" /\ IsStr(Rec(k)["title"]))
                              => Unquote(cells[j]) = Rec(k)["title"].v

C1_Witness ==
    /\ CsvDone
    /\ Len(data) = 2
    /\ Len(fields) = 2
    /\ data[1] # data[2]
    /\ \E j \in 1..2: IsNone(CsvItem(Rec(1), fields[j], current_library))

(***************************************************************************)
(* C3.  Original statement: the order of the field list is kept in both     *)
(* formats, in the CSV header and cells and in the elements of every XML    *)
(* record.                                                                 *)
(***************************************************************************)
CsvFieldOrder ==
    (fmt = "csv" /\ opened) =>
        /\ HeaderColumns(outfile[2]) = fields
        /\ \A k \in 1..(Len(outfile) - 2):
              LET cells == RowCells(RowOf(k))
              IN  /\ Len(cells) = Len(fields)
                  /\ \A j \in 1..Len(fields):
                        Unquote(cells[j]) = CsvItemString(Rec(k), fields[j], current_library)

C3_Original ==
    /\ CsvFieldOrder
    /\ \A k \in BuiltRecords:
          \A a, b \in 1..Len(root.kids[k].kids):
              a < b => IndexOf(fields, FieldOfTag(root.kids[k].kids[a].tag))
                         < IndexOf(fields, FieldOfTag(root.kids[k].kids[b].tag))

(***************************************************************************)
(* C3, amended.  The CSV header columns and the cells of every row are in   *)
(* field-list order; in an XML record only the elements of the custom       *)
(* fields are in field-list order among themselves.                        *)
(***************************************************************************)
C3_CsvOrderXmlCustomOrder ==
    /\ CsvFieldOrder
    /\ \A k \in BuiltRecords:
          LET customs == SelectSeq(fields, IsCustom)
          IN  SelectSeq(KidTags(root.kids[k]), LAMBDA t: FieldOfTag(t) # t)
                = [j \in 1..Len(customs) |-> CustomTag(customs[j])]

C3_Witness ==
    \/ /\ CsvDone
       /\ Len(data) >= 1
       /\ Len(fields) = 2
       /\ CsvItemString(Rec(1), fields[1], current_library)
            # CsvItemString(Rec(1), fields[2], current_library)
    \/ /\ fmt = "xml" /\ pc = "done"
       /\ Len(data) >= 1
       /\ Len(SelectSeq(fields, IsCustom)) = 2

(***************************************************************************)
(* C6.  Every cell of every written row is the string of the item between   *)
(* double quotes with every double quote of the string doubled, and         *)
(* splitting the row on the commas outside quoted cells and undoubling      *)
(* gives back the string of every cell.                                    *)
(***************************************************************************)
C6_QuoteRoundTrip ==
    (fmt = "csv" /\ opened) =>
        \A k \in 1..(Len(outfile) - 2):
            LET cells == RowCells(RowOf(k))
                strs == [j \in 1..Len(fields) |->
                            CsvItemString(Rec(k), fields[j], current_library)]
            IN  /\ [j \in 1..Len(cells) |-> Unquote(cells[j])] = strs
                /\ \A j \in 1..Len(cells):
                      /\ IsQuotedCell(cells[j])
                      /\ Len(cells[j]) = Len(strs[j]) + 2
                            + Len(SelectSeq(strs[j], LAMBDA c: c = "\""))

C6_Witness ==
    /\ fmt = "csv" /\ opened
    /\ Len(outfile) >= 3
    /\ \E j \in 1..Len(fields):
          LET str == CsvItemString(Rec(1), fields[j], current_library)
          IN  /\ \E a \in 1..Len(str): str[a] = "\""
              /\ \E a \in 1..Len(str): str[a] = ","


(***************************************************************************)
(* C4.  The children of every XML record element are in the structural     *)
(* order of the code (the custom fields first, then id, uuid, publisher,    *)
(* rating, size, isbn, ondevice, identifiers, title, authors, timestamp,    *)
(* pubdate, tags, comments, series, languages, cover, formats,              *)
(* library_name), and every field list with the same fields and the same    *)
(* relative order of the custom fields gives the same record element.      *)
(***************************************************************************)
StructuralOrder ==
    <<"id", "uuid", "publisher", "rating", "size", "isbn", "ondevice", "identifiers",
      "title", "authors", "timestamp", "pubdate", "tags", "comments", "series",
      "languages", "cover", "formats", "library_name">>

\* 0 for the element of a custom field, else the place in the structural order
RankOfTag(tag) ==
    IF FieldOfTag(tag) # tag THEN 0
    ELSE CHOOSE k \in 1..Len(StructuralOrder): StructuralOrder[k] = tag

\* the field lists with the fields of fs and its order of the custom fields
Reorderings(fs) ==
    {gs \in [1..Len(fs) -> {fs[k] : k \in 1..Len(fs)}] :
        /\ \A a, b \in 1..Len(gs): gs[a] = gs[b] => a = b
        /\ SelectSeq(gs, IsCustom) = SelectSeq(fs, IsCustom)}

C4_FixedStructuralOrder ==
    \A k \in BuiltRecords:
        LET tags == KidTags(root.kids[k])
        IN  /\ \A a, b \in 1..Len(tags):
                  a < b => /\ RankOfTag(tags[a]) <= RankOfTag(tags[b])
                           /\ RankOfTag(tags[b]) > 0 => RankOfTag(tags[a]) < RankOfTag(tags[b])
            /\ \A gs \in Reorderings(fields):
                  XmlRecordOf(Rec(k), gs, current_library) = root.kids[k]

C4_Witness ==
    /\ fmt = "xml" /\ pc = "done"
    /\ Len(data) = 1
    /\ fields = <<"library_name", "id">>
    /\ KidTags(root.kids[1]) = <<"id", "library_name">>

(***************************************************************************)
(* C5.  Original statement: for a field of datatype rating, the raw value   *)
(* 10 is shown as 5.0 in CSV and in XML, and the raw values 0 and None      *)
(* give the empty cell in CSV and no element in XML.                       *)
(***************************************************************************)
RatingFields == {f \in AllFields : Datatype(f) = "rating"}

C5_Original ==
    /\ (fmt = "csv" /\ opened) =>
          \A k \in 1..(Len(outfile) - 2): \A j \in 1..Len(fields):
              fields[j] \in RatingFields =>
                  LET val == Rec(k)[fields[j]]
                      cell == RowCells(RowOf(k))[j]
                  IN  /\ val = PInt(10) => cell = <<"\"", "5", ".", "0", "\"">>
                      /\ (val = PInt(0) \/ IsNone(val)) => cell = <<"\"", "\"">>
    /\ \A k \in BuiltRecords: \A j \in 1..Len(fields):
          fields[j] \in RatingFields =>
              LET val == Rec(k)[fields[j]]
                  tag == XmlTagOf(fields[j])
              IN  /\ val = PInt(10) => /\ HasKid(root.kids[k], tag)
                                       /\ KidText(root.kids[k], tag) = <<"5", ".", "0">>
                  /\ (val = PInt(0) \/ IsNone(val)) => ~HasKid(root.kids[k], tag)

(***************************************************************************)
(* C5, amended.  For the field rating: the raw value 10 is shown as 5 (the  *)
(* value divided by 2 with two significant digits and no trailing .0; 9 is  *)
(* shown as 4.5) in CSV and in XML; None gives the empty cell in CSV, 0 and *)
(* None give no rating element in XML, and 0 gives the cell "0" in CSV.     *)
(***************************************************************************)
C5_RatingRescaled ==
    /\ (fmt = "csv" /\ opened) =>
          \A k \in 1..(Len(outfile) - 2): \A j \in 1..Len(fields):
              fields[j] = "rating" =>
                  LET val == Rec(k)["rating"]
                      cell == RowCells(RowOf(k))[j]
                  IN  /\ val = PInt(10) => cell = <<"\"", "5", "\"">>
                      /\ val = PInt(9) => cell = <<"\"", "4", ".", "5", "\"">>
                      /\ val = PInt(0) => cell = <<"\"", "0", "\"">>
                      /\ IsNone(val) => cell = <<"\"", "\"">>
    /\ \A k \in BuiltRecords:
          InFields("rating", fields) =>
              LET val == Rec(k)["rating"]
              IN  /\ val = PInt(10) => /\ HasKid(root.kids[k], "rating")
                                       /\ KidText(root.kids[k], "rating") = <<"5">>
                  /\ val = PInt(9) => /\ HasKid(root.kids[k], "rating")
                                      /\ KidText(root.kids[k], "rating") = <<"4", ".", "5">>
                  /\ (val = PInt(0) \/ IsNone(val)) => ~HasKid(root.kids[k], "rating")

C5_Witness ==
    /\ InFields("rating", fields)
    /\ Len(data) = 2
    /\ Rec(1)["rating"] = PInt(10)
    /\ Rec(2)["rating"] = PInt(0)
    /\ pc = "done"


(***************************************************************************)
(* C2.  Original statement: for every record and every field of the field   *)
(* list whose value is None or falsy, the XML record has no element for     *)
(* the field and the CSV row has the empty quoted cell in its column.      *)
(***************************************************************************)
\* the value of a field in the k-th record
RawValue(k, field) ==
    IF field = "library_name" THEN current_library ELSE Rec(k)[CsvKey(field)]

C2_Original ==
    /\ (fmt = "csv" /\ opened) =>
          \A k \in 1..(Len(outfile) - 2): \A j \in 1..Len(fields):
              ~Truthy(RawValue(k, fields[j])) => RowCells(RowOf(k))[j] = <<"\"", "\"">>
    /\ \A k \in BuiltRecords: \A j \in 1..Len(fields):
          ~Truthy(RawValue(k, fields[j])) => ~HasKid(root.kids[k], XmlTagOf(fields[j]))

(***************************************************************************)
(* C2, amended.  In XML a field among id, uuid, publisher, rating, size,    *)
(* isbn, ondevice, identifiers, tags, comments, series, languages, cover    *)
(* and formats whose value is None or falsy has no element in the record,   *)
(* while title, authors, timestamp, pubdate, library_name and the custom    *)
(* fields have an element in every record that was built, whatever the      *)
(* value.  In CSV the cell of a field whose value is None, the empty string *)
(* or the empty list is the empty quoted cell, and the cell of a numeric    *)
(* zero is its quoted string form ("0", "0.0").                            *)
(***************************************************************************)
GuardedXmlFields ==
    {"id", "uuid", "publisher", "rating", "size", "isbn", "ondevice", "identifiers",
     "tags", "comments", "series", "languages", "cover", "formats"}

UnguardedXmlFields ==
    {"title", "authors", "timestamp", "pubdate", "library_name"} \cup CustomFields

C2_GuardedFieldsOmitted ==
    /\ (fmt = "csv" /\ opened) =>
          \A k \in 1..(Len(outfile) - 2): \A j \in 1..Len(fields):
              LET val == RawValue(k, fields[j])
                  cell == RowCells(RowOf(k))[j]
              IN  /\ (IsNone(val) \/ val = PStr(<<>>) \/ val = PList(<<>>))
                        => cell = <<"\"", "\"">>
                  /\ val = PInt(0) => cell = <<"\"", "0", "\"">>
                  /\ val = PFloat(0) => cell = <<"\"", "0", ".", "0", "\"">>
    /\ \A k \in BuiltRecords: \A j \in 1..Len(fields):
          /\ (fields[j] \in GuardedXmlFields /\ ~Truthy(RawValue(k, fields[j])))
                => ~HasKid(root.kids[k], fields[j])
          /\ fields[j] \in UnguardedXmlFields => HasKid(root.kids[k], XmlTagOf(fields[j]))

C2_Witness ==
    /\ fmt = "xml" /\ pc = "done"
    /\ Len(data) >= 1
    /\ fields = <<"title", "tags">>
    /\ Rec(1)["title"] = PStr(<<>>)
    /\ Rec(1)["tags"] = PList(<<>>)
    /\ KidTags(root.kids[1]) = <<"title">>

(***************************************************************************)
(* C7.  In an XML export a record whose construction raises ends the        *)
(* export: the error that leaves run is the new Exception that names the    *)
(* title of that record and carries the cause, no later record has been     *)
(* processed, and the failing record was not passed over.                  *)
(***************************************************************************)
XmlRaises(k) == XmlBuild(Rec(k), fields, current_library).exc # ""

TitleText(k) ==
    IF IsStr(Rec(k)["title"]) THEN Rec(k)["title"].v ELSE <<"N", "o", "n", "e">>

C7_WrappedAndAborted ==
    fmt = "xml" =>
        \A k \in 1..Len(data):
            (XmlRaises(k) /\ (k < i \/ (k = i /\ pc # "records"))) =>
                /\ pc = "raised"
                /\ i = k
                /\ err.type = "Exception"
                /\ err.title = TitleText(k)
                /\ err.cause \in {"KeyError", "TypeError", "AttributeError"}
                /\ Len(root.kids) = k
                /\ ~opened

C7_Witness ==
    /\ fmt = "xml" /\ pc = "raised"
    /\ i = 1
    /\ Len(data) = 2
    /\ err.title = <<"T">>

(***************************************************************************)
(* C8.  With an empty result set the export does not fail: the CSV file is  *)
(* the byte-order-mark and the header line, and the XML document is a root  *)
(* element without children.                                               *)
(***************************************************************************)
C8_EmptyResultSet ==
    Len(data) = 0 =>
        /\ pc # "raised"
        /\ err = NoError
        /\ CsvDone =>
              /\ Len(outfile) = 2
              /\ outfile[1] = <<"U+FEFF">>
              /\ EndsWithNewline(outfile[2])
              /\ HeaderColumns(outfile[2]) = fields
        /\ (fmt = "xml" /\ pc = "done") =>
              /\ Len(outfile) = 1
              /\ outfile[1].root.tag = "calibredb"
              /\ outfile[1].root.kids = <<>>

C8_Witness ==
    /\ Len(data) = 0
    /\ CsvDone
    /\ Len(fields) = 2
    /\ opened

(***************************************************************************)
(* C9.  When a field of the k-th record raises in a CSV export, the file    *)
(* holds the byte-order-mark, the header line and the complete rows of the  *)
(* k-1 records before it, and nothing of the k-th record or of a later one. *)
(***************************************************************************)
C9_CsvPartialFile ==
    (fmt = "csv" /\ pc = "raised") =>
        /\ opened
        /\ CsvEntryRaises(Rec(i))
        /\ Len(outfile) = i + 1
        /\ outfile[1] = <<"U+FEFF">>
        /\ HeaderColumns(outfile[2]) = fields
        /\ \A k \in 1..(i - 1):
              /\ ~CsvEntryRaises(Rec(k))
              /\ EndsWithNewline(RowOf(k))
              /\ Len(RowCells(RowOf(k))) = Len(fields)
              /\ RowOf(k) = CsvLine(Rec(k), fields, current_library)

C9_Witness ==
    /\ fmt = "csv" /\ pc = "raised"
    /\ i = 2
    /\ Len(fields) = 2
    /\ ~CsvRaises(Rec(2), fields[1])
    /\ CsvRaises(Rec(2), fields[2])
    /\ Len(outfile) = 3

(***************************************************************************)
(* C10.  An XML export opens and writes its destination only after every    *)
(* record element has been built, in a single write; a run in which a       *)
(* record fails never opens it, and a run that completes has written one    *)
(* record element per record of the result set, in result-set order.       *)
(***************************************************************************)
C10_XmlWrittenAtEnd ==
    fmt = "xml" =>
        /\ opened <=> pc = "done"
        /\ ~opened => outfile = <<>>
        /\ opened =>
              /\ i = Len(data) + 1
              /\ Len(outfile) = 1
              /\ Len(outfile[1].root.kids) = Len(data)
              /\ \A k \in 1..Len(data):
                    /\ ~XmlRaises(k)
                    /\ outfile[1].root.kids[k].tag = "record"
                    /\ outfile[1].root.kids[k].kids
                          = XmlBuild(Rec(k), fields, current_library).els

C10_Witness ==
    /\ fmt = "xml" /\ pc = "raised"
    /\ i = 2
    /\ Len(root.kids) = 2
    /\ ~opened
    /\ outfile = <<>>

====
